---- MODULE Spec2Model ----
(***************************************************************************)
(* Model of run_download_goes_ir_vis_l1b_glm_l2_data                       *)
(* (src/python/glm_gridder/run_download_goes_ir_vis_l1b_glm_l2_data.py).   *)
(*                                                                         *)
(* Time is counted in minutes.  Hour(t) stands for the triple              *)
(* (year, day of year, hour) that the prefixes and the 's%Y%j%H' pattern   *)
(* are formatted from, Day(t) for date.strftime("%Y%m%d").  The object     *)
(* store client (list_gcs, download_ncdf_gcs, copy_blob_gcs,               *)
(* download_gcp_parallel) is imported from new_model.gcs_processing; its   *)
(* results are the nondeterministic inputs of the actions.                 *)
(***************************************************************************)
EXTENDS Integers, Sequences, FiniteSets, TLC

\* ------------------------------------------------------------------ bounds
MaxHours == 1          \* historical windows span up to MaxHours hours and a half
MaxScan  == 2          \* scans of one image channel published within an hour
MaxOver  == 1          \* lightning files listed beyond the number that is kept
MaxNear  == 12         \* longest lightning listing of the hour before or after it
MaxPolls == 2          \* empty answers counted in the wait loop that is running

\* ------------------------------------------------------- program constants
GlmKeepFull   == 30    \* files[-30:]
GlmKeepConus  == 15    \* files[-15:]
GlmKeepMeso   == 10    \* files[-10:]
BackMinute    == 3     \* minute < 3.0
BackSlice     == 8     \* files0[-8:], int(-8+(minute*3))
BackStep      == 3     \* int(-8+(minute*3))
FwdMinute     == 55    \* minute > 55.0
FwdSlice      == 8     \* files[:8]
PoolSize      == 5     \* mp.Pool(5)
FullMinute    == 10    \* date1.minute < 10
FullShift     == 10    \* timedelta(minutes = 10)
ConusMinute   == 4     \* date1.minute < 4
ConusShift    == 5     \* timedelta(minutes = 5)
StepMinutes   == 60    \* timedelta(hours = 1)
DayMinutes    == 1440  \* minutes of a calendar day

None == -1             \* Python's None for date1, date2

\* ------------------------------------------------------------ time helpers
Hour(t)   == t \div StepMinutes
Day(t)    == t \div DayMinutes
Minute(t) == t % StepMinutes

\* 23:00 of the second day; the windows start around it
Base == 2 * DayMinutes + 23 * StepMinutes

StartTimes == {Base - StepMinutes + 2, Base + 30, Base + 57}
NowTimes   == {3 * DayMinutes + 1, Base + 3, Base + 9, Base + 10, Base + 30}
Spans      == {30 * k : k \in -1 .. (2 * MaxHours + 1)} \ {0}
\* the current times of the real-time runs: every minute of an hour for the
\* sectors whose start is adjusted, NowTimes for the others
NowTimesOf(s0) ==
    IF s0 \in {"C", "F"} THEN {Base + m : m \in 0 .. (StepMinutes - 1)} ELSE NowTimes
NearLens   == {0, 9, MaxNear}
ImgLens    == 0 .. MaxScan

Sectors == {"meso1", "meso2", "conus", "full", "meso", ""}

\* ------------------------------------------------------------- blob names
\* A blob reference is a prefix and a file name; a file name carries the
\* channel, the scan sector, the hour of its scan start, its scan-start
\* stamp s and a second stamp e of the same digits format (scan end).
NoName == [ch |-> "", sec |-> "", hr |-> 0, s |-> 0, e |-> 0]
NoPre  == [prod |-> "", hr |-> 0]
NoBlob == [pre |-> NoPre, name |-> NoName]
NoDir  == [day |-> 0, cat |-> ""]
NoKey  == [day |-> 0, cat |-> "", sep |-> TRUE, base |-> NoName]

Blob(prod, h, ch, sec, s) ==
    [pre |-> [prod |-> prod, hr |-> h],
     name |-> [ch |-> ch, sec |-> sec, hr |-> h, s |-> s, e |-> s + 1]]

\* os.path.basename of a blob reference and of a local path
BlobBasename(b) == b.name
PathBasename(p) == p.base

\* re.split('_s|_', os.path.basename(f))[3]: the scan-start stamp
BatchId(b) == BlobBasename(b).s

\* os.path.join(date.strftime("%Y%m%d"), cat) then os.path.join(pref, base)
JoinKey(t, cat, base) == [day |-> Day(t), cat |-> cat, sep |-> TRUE, base |-> base]
\* pref + base: no separator between the category and the file name
ConcatKey(t, cat, base) == [day |-> Day(t), cat |-> cat, sep |-> FALSE, base |-> base]

\* os.path.join(outroot, date.strftime("%Y%m%d"), cat)
OutDir(t, cat) == [day |-> Day(t), cat |-> cat]

\* ---------------------------------------------------------------- patterns
Pat(kind, str, num) == [kind |-> kind, str |-> str, num |-> num]
ChanPat(ch)   == Pat("chan", ch, 0)
StartPat(t)   == Pat("start", "", Hour(t))
SectorPat(s0) == Pat("sector", s0, 0)
DigitsPat(f)  == Pat("digits", "", f)

\* pattern in b.name, as list_gcs tests it
Contains(n, p) ==
    CASE p.kind = "chan"   -> n.ch = p.str
      [] p.kind = "start"  -> n.hr = p.num
      [] p.kind = "sector" -> n.sec = p.str \/ (p.str = "C" /\ n.ch # "GLM")
      [] p.kind = "digits" -> n.s = p.num \/ n.e = p.num
      [] OTHER             -> FALSE

Request(prod, h, pats) == [pre |-> [prod |-> prod, hr |-> h], pats |-> pats]
NoReq == Request("", 0, <<>>)

SectorCodes(prod) ==
    CASE prod = "ABI-L1b-RadM" -> {"M1", "M2"}
      [] prod = "ABI-L1b-RadC" -> {"C"}
      [] prod = "ABI-L1b-RadF" -> {"F"}
      [] OTHER                 -> {}

\* the blobs under a prefix once n scans (n lightning files) are published
Published(pre, n) ==
    IF pre.prod = "GLM-L2-LCFA"
    THEN {Blob(pre.prod, pre.hr, "GLM", "", s) : s \in 1 .. n}
    ELSE {Blob(pre.prod, pre.hr, c[1], c[2], s) :
             c \in {"C02", "C08", "C13"} \X SectorCodes(pre.prod), s \in 1 .. n}

Matching(r, n) ==
    {b \in Published(r.pre, n) :
        \A k \in 1 .. Len(r.pats) : Contains(b.name, r.pats[k])}

\* ascending by scan start, the order list_gcs returns names in
Ordered(S) ==
    [k \in 1 .. Cardinality(S) |->
        CHOOSE b \in S : Cardinality({c \in S : c.name.s < b.name.s}) = k - 1]

\* every answer list_gcs can give to request r, while lens bounds how many
\* scans (lightning files) the bucket holds
ListGcs(r, lens) == {Ordered(Matching(r, n)) : n \in lens}

\* -------------------------------------------------------- Python slicing
\* seq[start:] for any integer start
SliceFrom(seq, start) ==
    LET n  == Len(seq)
        st == IF start < 0 THEN (IF n + start < 0 THEN 0 ELSE n + start)
              ELSE (IF start > n THEN n ELSE start)
    IN SubSeq(seq, st + 1, n)

\* seq[:stop] for stop >= 0
SliceTo(seq, stop) == SubSeq(seq, 1, IF stop > Len(seq) THEN Len(seq) ELSE stop)

\* ------------------------------------------------------------------ state
VARIABLES
    sector, date1, date2, no_glm, no_vis, no_ir, no_irdiff, gcs_bucket, del_local,
    pc, sector0, ir_vis_prod, rt, date, files, files0, fb, outfile, outdir, outroot0,
    i, started, running,
    req, listed, listed0, log, polls, iters, visited, io, irblob

params == <<sector, no_glm, no_vis, no_ir, no_irdiff, gcs_bucket, del_local>>
window == <<date1, date2, rt, sector0, ir_vis_prod>>
pool   == <<started, running>>
vars   == <<sector, date1, date2, no_glm, no_vis, no_ir, no_irdiff, gcs_bucket, del_local,
            pc, sector0, ir_vis_prod, rt, date, files, files0, fb, outfile, outdir,
            outroot0, i, started, running, req, listed, listed0, log, polls, iters,
            visited, io, irblob>>

Unbound == [st |-> "unbound", dir |-> NoDir, base |-> NoName]
Failed  == [st |-> "fail", dir |-> NoDir, base |-> NoName]
Path(d, b) == [st |-> "path", dir |-> d, base |-> BlobBasename(b)]

Entry(op, b, d, k) == [op |-> op, blob |-> b, dir |-> d, key |-> k]

Init ==
    /\ sector \in Sectors
    /\ date1 \in {None} \cup StartTimes
    /\ date2 \in IF date1 = None THEN {None}
                 ELSE {None} \cup {date1 + d : d \in Spans}
    /\ no_glm \in BOOLEAN /\ no_vis \in BOOLEAN
    /\ no_ir \in BOOLEAN /\ no_irdiff \in BOOLEAN
    \* every combination of the image categories runs on the default sector,
    \* the other sectors run with the default image categories
    /\ sector # "meso2" => no_ir = FALSE /\ no_vis = FALSE /\ no_irdiff = TRUE
    /\ gcs_bucket \in {"None", "mirror"}
    /\ del_local \in BOOLEAN
    /\ pc = "start"
    /\ sector0 = "" /\ ir_vis_prod = "" /\ rt = FALSE /\ date = 0
    /\ files = <<>> /\ files0 = <<>> /\ fb = 0
    /\ outfile = Unbound /\ outdir = NoDir /\ outroot0 = <<>>
    /\ i = 0 /\ started = 0 /\ running = 0
    /\ req = NoReq /\ listed = <<>> /\ listed0 = <<>> /\ log = <<>> /\ polls = 0
    /\ iters = 0 /\ visited = <<>> /\ io = FALSE /\ irblob = NoBlob

\* ------------------------------------------------------- lines 122 - 161
\* a test of the first four letters in place of the if chain
ValidSectorsByPrefix == {"meso1", "meso2", "conus", "full", "meso"}
\* lines 125 - 136: the sectors the if chain names
ValidSectors == {"meso1", "meso2", "conus", "full"}

\* sector[0].upper()
FirstUpper(sec) ==
    CASE sec \in {"meso1", "meso2", "meso"} -> "M"
      [] sec = "conus" -> "C"
      [] sec = "full"  -> "F"
      [] OTHER         -> ""

SectorCode(sec) ==
    CASE sec = "meso1" -> "M1"
      [] sec = "meso2" -> "M2"
      [] sec = "conus" -> "C"
      [] sec = "full"  -> "F"
      [] OTHER         -> ""

\* a start that is not adjusted
AdjustNowNoShift(now, s0) == now
\* the start of a real-time run, from utcnow()
AdjustNow(now, s0) ==
    IF s0 = "F" /\ Minute(now) < FullMinute THEN now - FullShift
    ELSE IF s0 = "C" /\ Minute(now) < ConusMinute THEN now - ConusShift
    ELSE now

Configure ==
    /\ pc = "start"
    /\ IF sector = ""
       THEN /\ pc' = "IndexError"
            /\ UNCHANGED <<window, date>>
       ELSE IF sector \notin ValidSectors
       THEN /\ pc' = "exit"
            /\ ir_vis_prod' = "ABI-L1b-Rad" \o FirstUpper(sector)
            /\ UNCHANGED <<date1, date2, rt, sector0, date>>
       ELSE /\ ir_vis_prod' = "ABI-L1b-Rad" \o FirstUpper(sector)
            /\ sector0' = SectorCode(sector)
            /\ IF date1 = None
               THEN \E now \in NowTimesOf(sector0') :
                       /\ date1' = AdjustNow(now, sector0')
                       /\ date2' = date1'
                       /\ rt' = TRUE
               ELSE /\ date1' = date1
                    /\ date2' = (IF date2 = None THEN date1 ELSE date2)
                    /\ rt' = FALSE
            /\ date' = date1'
            /\ pc' = "loop"
    /\ UNCHANGED <<params, files, files0, fb, outfile, outdir, outroot0, i, pool,
                   req, listed, listed0, log, polls, iters, visited, io, irblob>>

\* ------------------------------------------------------- lines 162 - 165
LoopCond(d2, d) == d2 >= d

LoopTest ==
    /\ pc = "loop"
    /\ IF LoopCond(date2, date)
       THEN pc' = "ir" /\ visited' = Append(visited, date)
       ELSE pc' = "done" /\ UNCHANGED visited
    \* the record of what the body did starts anew with each turn
    /\ req' = NoReq /\ listed' = <<>> /\ listed0' = <<>> /\ log' = <<>> /\ polls' = 0
    /\ UNCHANGED <<params, window, date, files, files0, fb, outfile, outdir, outroot0,
                   i, pool, iters, io, irblob>>

\* ----------------------------------------------------------- the requests
ImgPats(ch, t, s0) == <<ChanPat(ch), StartPat(t), SectorPat(s0)>>

\* lines 168, 201, 227: the query of one channel for the hour of the cursor
ImgRequest(ch) == Request(ir_vis_prod, Hour(date), ImgPats(ch, date, sector0))
\* the visible query in place of the infrared one
IrWaitVisible == Request(ir_vis_prod, Hour(date), ImgPats("C02", date, sector0))
\* line 172: the query the infrared wait loop issues
IrWaitRequest == ImgRequest("C13")
\* lines 194, 219: the query with the batch identifier f as a fourth pattern
FbRequest(ch, f) ==
    Request(ir_vis_prod, Hour(date), Append(ImgPats(ch, date, sector0), DigitsPat(f)))
\* a wait loop that falls back to the query without the batch identifier
FbWaitUncorrelated(ch, f) == ImgRequest(ch)
\* lines 197, 223: the query the visible and 6.2 micron wait loops issue
FbWaitRequest(ch, f) == FbRequest(ch, f)
\* lines 245, 273, 305: the lightning query for the hour of t
GlmRequest(t) == Request("GLM-L2-LCFA", Hour(t), <<ChanPat("GLM"), StartPat(t)>>)

\* lines 180, 205, 231: files = [files[-1]] in real time
SelectImg(isrt, L) == IF isrt THEN <<L[Len(L)]>> ELSE L

\* lines 176 - 180 (202 - 205, 228 - 231): what follows a listing L of category cat
ImgSelect(cat, L, xfer, next) ==
    /\ listed' = L
    /\ IF Len(L) > 0
       THEN /\ outdir' = OutDir(date, cat)
            /\ log' = <<Entry("mkdir", NoBlob, OutDir(date, cat), NoKey)>>
            /\ files' = SelectImg(rt, L)
            \* the infrared blob a real-time run selected last
            /\ irblob' = (IF cat = "ir" /\ rt THEN files'[Len(files')] ELSE irblob)
            /\ i' = 1
            /\ pc' = xfer
       ELSE /\ files' = L
            /\ log' = <<>>
            /\ pc' = next
            /\ UNCHANGED <<outdir, i, irblob>>

\* ------------------------------------------------------- lines 167 - 189
\* a wait loop entered in historical runs too
IrMustWaitAlways(L) == Len(L) = 0
\* no wait loop at all
IrNeverWaits(L) == FALSE
\* line 169: if len(files) == 0 and rt == True
IrMustWait(L) == Len(L) = 0 /\ rt

IrList ==
    /\ pc = "ir"
    /\ IF no_ir
       THEN /\ pc' = "vis"
            /\ UNCHANGED <<files, outdir, i, req, listed, log, polls, io, irblob>>
       ELSE /\ req' = ImgRequest("C13")
            /\ io' = TRUE
            /\ polls' = 0
            /\ \E L \in ListGcs(req', ImgLens) :
                  IF IrMustWait(L)
                  THEN /\ pc' = "ir_wait"
                       /\ files' = L /\ listed' = L /\ log' = <<>>
                       /\ UNCHANGED <<outdir, i, irblob>>
                  ELSE ImgSelect("ir", L, "ir_xfer", "vis")
    /\ UNCHANGED <<params, window, date, files0, fb, outfile, outroot0, pool, listed0,
                   iters, visited>>

\* lines 171 - 174: one turn of the wait loop
IrPoll ==
    /\ pc = "ir_wait"
    /\ req' = IrWaitRequest
    /\ \E L \in ListGcs(req', ImgLens) :
          IF Len(L) > 0
          THEN ImgSelect("ir", L, "ir_xfer", "vis") /\ polls' = 0
          ELSE /\ polls' = (IF polls < MaxPolls THEN polls + 1 ELSE polls)
               /\ files' = L /\ listed' = L
               /\ UNCHANGED <<pc, outdir, i, log, irblob>>
    /\ UNCHANGED <<params, window, date, files0, fb, outfile, outroot0, pool, listed0,
                   iters, visited, io>>

\* ------------------------------------------------------- lines 191 - 242
\* the listing step of the visible (C02) and 6.2 micron (C08) categories
CorrList(here, ch, cat, skip, wait, xfer, next) ==
    /\ pc = here
    /\ IF skip
       THEN /\ pc' = next
            /\ UNCHANGED <<files, fb, outdir, i, req, listed, log, polls, io, irblob>>
       ELSE IF rt /\ ~no_ir
       THEN IF Len(files) = 0
            THEN /\ pc' = "IndexError"
                 /\ UNCHANGED <<files, fb, outdir, i, req, listed, log, polls, io,
                                irblob>>
            ELSE /\ fb' = BatchId(files[1])
                 /\ req' = FbRequest(ch, fb')
                 /\ io' = TRUE
                 /\ polls' = 0
                 /\ \E L \in ListGcs(req', ImgLens) :
                       IF Len(L) = 0
                       THEN /\ pc' = wait
                            /\ files' = L /\ listed' = L /\ log' = <<>>
                            /\ UNCHANGED <<outdir, i, irblob>>
                       ELSE ImgSelect(cat, L, xfer, next)
       ELSE /\ req' = ImgRequest(ch)
            /\ io' = TRUE
            /\ polls' = 0
            /\ \E L \in ListGcs(req', ImgLens) : ImgSelect(cat, L, xfer, next)
            /\ UNCHANGED fb
    /\ UNCHANGED <<params, window, date, files0, outfile, outroot0, pool, listed0,
                   iters, visited>>

\* lines 196 - 199, 222 - 225: one turn of the wait loop
CorrPoll(here, ch, cat, xfer, next) ==
    /\ pc = here
    /\ req' = FbWaitRequest(ch, fb)
    /\ \E L \in ListGcs(req', ImgLens) :
          IF Len(L) > 0
          THEN ImgSelect(cat, L, xfer, next) /\ polls' = 0
          ELSE /\ polls' = (IF polls < MaxPolls THEN polls + 1 ELSE polls)
               /\ files' = L /\ listed' = L
               /\ UNCHANGED <<pc, outdir, i, log, irblob>>
    /\ UNCHANGED <<params, window, date, files0, fb, outfile, outroot0, pool, listed0,
                   iters, visited, io>>

VisList    == CorrList("vis", "C02", "vis", no_vis, "vis_wait", "vis_xfer", "irdiff")
VisPoll    == CorrPoll("vis_wait", "C02", "vis", "vis_xfer", "irdiff")
IrdiffList == CorrList("irdiff", "C08", "ir_diff", no_irdiff, "irdiff_wait",
                       "irdiff_xfer", "glm")
IrdiffPoll == CorrPoll("irdiff_wait", "C08", "ir_diff", "irdiff_xfer", "glm")

\* ------------------------------------------- the download and mirror loops
\* lines 181 - 186, 206 - 211, 232 - 237, 257 - 262, 283 - 288, 310 - 315
XferPcs == {"ir_xfer", "vis_xfer", "irdiff_xfer", "glm_xfer", "glm_back_xfer",
            "glm_fwd_xfer"}

CatOf(p) ==
    CASE p = "ir_xfer"     -> "ir"
      [] p = "vis_xfer"    -> "vis"
      [] p = "irdiff_xfer" -> "ir_diff"
      [] OTHER             -> "glm"

After(p) ==
    CASE p = "ir_xfer"       -> "vis"
      [] p = "vis_xfer"      -> "irdiff"
      [] p = "irdiff_xfer"   -> "glm"
      [] p = "glm_xfer"      -> "glm_back"
      [] p = "glm_back_xfer" -> "glm_fwd"
      [] p = "glm_rt_copy"   -> "glm_fwd"
      [] OTHER               -> "manifest"

\* if del_local == False:
KeepLocal == del_local = FALSE
\* if gcs_bucket != None:
Mirrored == gcs_bucket # "None"

\* what download_ncdf_gcs may return for blob b: the local file, or -1
DownloadResults(b) == {Path(outdir, b), Failed}

\* line 288 names the copy after outfile; what evaluating its key does
KeyRaises(p, of) ==
    IF p # "glm_back_xfer" THEN "no"
    ELSE IF of.st = "unbound" THEN "UnboundLocalError"
    ELSE IF of.st = "fail" THEN "TypeError"
    ELSE "no"

\* the destination key of the copy issued in loop p for blob b
MirrorKey(p, b, of) ==
    IF p = "glm_back_xfer"
    THEN ConcatKey(date, CatOf(p), PathBasename(of))
    ELSE JoinKey(date, CatOf(p), BlobBasename(b))

Downloaded(b) == Entry("download", b, outdir, NoKey)
Copied(b, k)  == Entry("copy", b, NoDir, k)

\* one turn of a for loop over files
Transfer ==
    /\ pc \in XferPcs
    /\ i <= Len(files)
    /\ \E res \in (IF KeepLocal THEN DownloadResults(files[i]) ELSE {outfile}) :
          LET got == IF KeepLocal THEN Append(log, Downloaded(files[i])) ELSE log
          IN /\ outfile' = res
             /\ IF ~Mirrored
                THEN log' = got /\ i' = i + 1 /\ UNCHANGED pc
                ELSE IF KeyRaises(pc, res) # "no"
                THEN log' = got /\ pc' = KeyRaises(pc, res) /\ UNCHANGED i
                ELSE /\ log' = Append(got, Copied(files[i], MirrorKey(pc, files[i], res)))
                     /\ i' = i + 1
                     /\ UNCHANGED pc
    /\ UNCHANGED <<params, window, date, files, files0, fb, outdir, outroot0, pool,
                   req, listed, listed0, polls, iters, visited, io, irblob>>

\* the for loop is exhausted
LoopDone ==
    /\ pc \in XferPcs \cup {"glm_rt_copy"}
    /\ i > Len(files)
    /\ pc' = After(pc)
    /\ UNCHANGED <<params, window, date, files, files0, fb, outfile, outdir, outroot0,
                   i, pool, req, listed, listed0, log, polls, iters, visited, io, irblob>>

\* ------------------------------------------------------- lines 244 - 267
GlmKeep(s0) ==
    CASE s0 = "F" -> GlmKeepFull
      [] s0 = "C" -> GlmKeepConus
      [] OTHER    -> GlmKeepMeso

\* files[-30:], files[-15:], files[-10:]
SelectGlm(s0, L) == SliceFrom(L, 0 - GlmKeep(s0))

\* the lengths of the listings of the hour of the cursor: none, fewer than
\* any number kept, more than the sector keeps
GlmLens(s0) == {0, BackSlice + 1, GlmKeep(s0) + MaxOver}

GlmList ==
    /\ pc = "glm"
    /\ IF no_glm
       THEN /\ pc' = "manifest"
            /\ UNCHANGED <<files, outdir, i, req, listed, log, io>>
       ELSE /\ req' = GlmRequest(date)
            /\ io' = TRUE
            /\ \E L \in ListGcs(req', GlmLens(sector0)) :
                  /\ listed' = L
                  /\ IF Len(L) > 0
                     THEN /\ outdir' = OutDir(date, "glm")
                          /\ log' = <<Entry("mkdir", NoBlob, OutDir(date, "glm"), NoKey)>>
                          /\ IF rt
                             THEN files' = SelectGlm(sector0, L) /\ pc' = "glm_back"
                                  /\ UNCHANGED i
                             ELSE files' = L /\ pc' = "glm_xfer" /\ i' = 1
                     ELSE /\ files' = L /\ log' = <<>> /\ pc' = "glm_back"
                          /\ UNCHANGED <<outdir, i>>
    /\ UNCHANGED <<params, window, date, files0, fb, outfile, outroot0, pool, listed0,
                   polls, iters, visited, irblob>>

\* ------------------------------------------------------- lines 268 - 289
\* minute <= 3 in place of minute < 3
BackfillDueLate(t) == Minute(t) <= BackMinute
\* if minute < 3.0:
BackfillDue(t) == Minute(t) < BackMinute
\* val = int(-8+(minute*3))
BackVal(t) == (0 - BackSlice) + Minute(t) * BackStep
\* files0[-val:]
BackSliceRt(L, t) == SliceFrom(L, 0 - BackVal(t))
\* files0[-8:]
BackSliceHist(L) == SliceFrom(L, 0 - BackSlice)

GlmBack ==
    /\ pc = "glm_back"
    /\ IF BackfillDue(date)
       THEN /\ req' = GlmRequest(date - StepMinutes)
            /\ io' = TRUE
            /\ \E L \in ListGcs(req', NearLens) :
                  /\ listed0' = L
                  /\ IF Len(L) > 0
                     THEN /\ outdir' = OutDir(date, "glm")
                          /\ IF rt
                             THEN /\ files0' = BackSliceRt(L, date)
                                  /\ files' = files \o files0'
                                  /\ log' = Append(log, Entry("mkdir", NoBlob,
                                                              OutDir(date, "glm"), NoKey))
                                  /\ pc' = "glm_rt"
                                  /\ UNCHANGED i
                             ELSE /\ files0' = L
                                  /\ files' = BackSliceHist(L)
                                  /\ log' = <<Entry("mkdir", NoBlob, OutDir(date, "glm"),
                                                    NoKey)>>
                                  /\ i' = 1
                                  /\ pc' = "glm_back_xfer"
                     ELSE /\ files0' = L
                          /\ pc' = (IF rt THEN "glm_rt" ELSE "glm_fwd")
                          /\ UNCHANGED <<files, outdir, i, log>>
       ELSE /\ pc' = (IF rt THEN "glm_rt" ELSE "glm_fwd")
            /\ UNCHANGED <<files, files0, outdir, i, req, listed0, log, io>>
    /\ UNCHANGED <<params, window, date, fb, outfile, outroot0, pool, listed, polls,
                   iters, visited, irblob>>

\* ------------------------------------------------------- lines 290 - 299
\* pool = mp.Pool(5); one apply_async per row of files
PoolStart ==
    /\ pc = "glm_rt"
    /\ IF KeepLocal
       THEN pc' = "glm_pool" /\ started' = 0 /\ running' = 0 /\ UNCHANGED i
       ELSE pc' = "glm_rt_copy" /\ i' = 1 /\ UNCHANGED pool
    /\ UNCHANGED <<params, window, date, files, files0, fb, outfile, outdir, outroot0,
                   req, listed, listed0, log, polls, iters, visited, io, irblob>>

\* a worker of the pool takes the next row: download_gcp_parallel(row, files, ..)
TaskBegin ==
    /\ pc = "glm_pool"
    /\ started < Len(files)
    /\ running < PoolSize
    /\ started' = started + 1
    /\ running' = running + 1
    /\ log' = Append(log, Entry("task", files[started + 1], outdir, NoKey))
    /\ UNCHANGED <<params, window, pc, date, files, files0, fb, outfile, outdir,
                   outroot0, i, req, listed, listed0, polls, iters, visited, io, irblob>>

TaskEnd ==
    /\ pc = "glm_pool"
    /\ running > 0
    /\ running' = running - 1
    /\ UNCHANGED <<params, window, pc, date, files, files0, fb, outfile, outdir,
                   outroot0, i, started, req, listed, listed0, log, polls, iters,
                   visited, io, irblob>>

\* pool.close() without pool.join(): every task handed out, some still running
JoinedEarly(s, r, n) == s = n
\* line 295, pool.join(): every task was taken by a worker and has returned
Joined(s, r, n) == s = n /\ r = 0

\* pool.close(); pool.join()
PoolJoin ==
    /\ pc = "glm_pool"
    /\ Joined(started, running, Len(files))
    /\ pc' = "glm_rt_copy"
    /\ i' = 1
    /\ UNCHANGED <<params, window, date, files, files0, fb, outfile, outdir, outroot0,
                   pool, req, listed, listed0, log, polls, iters, visited, io, irblob>>

\* lines 296 - 299: one turn of the copy loop; no turn without a mirror bucket
Mirror ==
    /\ pc = "glm_rt_copy"
    /\ IF Mirrored
       THEN /\ i <= Len(files)
            /\ log' = Append(log, Copied(files[i], MirrorKey(pc, files[i], outfile)))
            /\ i' = i + 1
       ELSE /\ i <= Len(files)
            /\ i' = Len(files) + 1
            /\ UNCHANGED log
    /\ UNCHANGED <<params, window, pc, date, files, files0, fb, outfile, outdir,
                   outroot0, pool, req, listed, listed0, polls, iters, visited, io, irblob>>

\* ------------------------------------------------------- lines 301 - 316
\* if minute > 55.0 and rt == False:
ForwardDue(t) == Minute(t) > FwdMinute /\ ~rt

GlmFwd ==
    /\ pc = "glm_fwd"
    /\ IF ForwardDue(date)
       THEN /\ req' = GlmRequest(date + StepMinutes)
            /\ io' = TRUE
            /\ \E L \in ListGcs(req', NearLens) :
                  IF Len(L) > 0
                  THEN /\ outdir' = OutDir(date, "glm")
                       /\ log' = <<Entry("mkdir", NoBlob, OutDir(date, "glm"), NoKey)>>
                       /\ files' = SliceTo(L, FwdSlice)
                       /\ i' = 1
                       /\ pc' = "glm_fwd_xfer"
                  ELSE /\ files' = L
                       /\ pc' = "manifest"
                       /\ UNCHANGED <<outdir, i, log>>
       ELSE /\ pc' = "manifest"
            /\ UNCHANGED <<files, outdir, i, req, log, io>>
    /\ UNCHANGED <<params, window, date, files0, fb, outfile, outroot0, pool, listed,
                   listed0, polls, iters, visited, irblob>>

\* ------------------------------------------------------- lines 318 - 322
\* os.path.join(outroot, date.strftime("%Y%m%d"))
RootDir(t) == [root |-> "outroot", day |-> Day(t)]
\* os.path.basename(outroot0[-1])
RootBasename(d) == d.day

AppendDay(m, t) ==
    IF Len(m) = 0 THEN Append(m, RootDir(t))
    ELSE IF Day(t) # RootBasename(m[Len(m)]) THEN Append(m, RootDir(t))
    ELSE m

\* date = date + timedelta(hours = 1)
NextCursor(t) == t + StepMinutes

Manifest ==
    /\ pc = "manifest"
    /\ outroot0' = AppendDay(outroot0, date)
    /\ date' = NextCursor(date)
    /\ iters' = iters + 1
    /\ pc' = "loop"
    /\ UNCHANGED <<params, window, files, files0, fb, outfile, outdir, i, pool, req,
                   listed, listed0, log, polls, visited, io, irblob>>

Next ==
    \/ Configure \/ LoopTest
    \/ IrList \/ IrPoll \/ VisList \/ VisPoll \/ IrdiffList \/ IrdiffPoll
    \/ Transfer \/ LoopDone
    \/ GlmList \/ GlmBack \/ PoolStart \/ TaskBegin \/ TaskEnd \/ PoolJoin \/ Mirror
    \/ GlmFwd \/ Manifest

Spec == Init /\ [][Next]_vars

\* ============================================================== properties
\* the cursor of the turn of the loop that is running
Cursor == visited[Len(visited)]

CatOfBlob(b) ==
    CASE b.name.ch = "C13" -> "ir"
      [] b.name.ch = "C02" -> "vis"
      [] b.name.ch = "C08" -> "ir_diff"
      [] OTHER             -> "glm"

IsDownload(e) == e.op = "download"
IsCopy(e)     == e.op = "copy"
BlobsOf(s)    == [k \in 1 .. Len(s) |-> s[k].blob]
Downloads     == BlobsOf(SelectSeq(log, IsDownload))
Copies        == BlobsOf(SelectSeq(log, IsCopy))

Raised == {"IndexError", "TypeError", "UnboundLocalError"}

\* the days of the cursor values v, each once, in the order of the first visit
DistinctDays(v) ==
    LET F[k \in 0 .. Len(v)] ==
            IF k = 0 THEN <<>>
            ELSE IF \E j \in 1 .. (k - 1) : Day(v[j]) = Day(v[k]) THEN F[k - 1]
            ELSE Append(F[k - 1], RootDir(v[k]))
    IN F[Len(v)]

\* what holds of the loop: a historical run with end >= start enters the body
\* at start, start + 1 h, ... and never more than floor((end-start)/1h)+1
\* times; when it returns, the body has run exactly that many times and the
\* manifest holds outroot/YYYYMMDD once per distinct day visited, in the order
\* of the visits.
ReturnedRunManifest ==
    (~rt /\ pc # "start" /\ date2 >= date1) =>
        /\ Len(visited) <= (date2 - date1) \div 60 + 1
        /\ \A k \in 1 .. Len(visited) : visited[k] = date1 + (k - 1) * 60
        /\ pc = "done" =>
              /\ iters = (date2 - date1) \div 60 + 1
              /\ Len(visited) = iters
              /\ outroot0 = DistinctDays(visited)
              /\ \A j, k \in 1 .. Len(outroot0) : j # k => outroot0[j] # outroot0[k]

\* the run is over: it has returned or an exception has ended it
Ended == pc \in {"done", "TypeError", "UnboundLocalError"}

\* C1: every historical run with end >= start that is over has run the body of
\* the hourly loop exactly floor((end-start)/1h)+1 times, and its manifest
\* holds outroot/YYYYMMDD once per distinct day visited, in the order of the
\* visits.
C1_HourlyLoopAndManifest ==
    (~rt /\ date2 >= date1 /\ Ended) =>
        /\ pc = "done"
        /\ iters = (date2 - date1) \div 60 + 1
        /\ Len(visited) = iters
        /\ outroot0 = DistinctDays(visited)

\* C2: every mirror copy has the destination key YYYYMMDD/<category>/<basename
\* of the blob>, built from the blob reference.
C2_MirrorKey ==
    \A k \in 1 .. Len(log) :
        IsCopy(log[k]) =>
            log[k].key = [day  |-> Day(Cursor),
                          cat  |-> CatOfBlob(log[k].blob),
                          sep  |-> TRUE,
                          base |-> BlobBasename(log[k].blob)]

\* C3: in real time with infrared enabled, a query with a fourth pattern (the
\* correlated C02 or C08 query) carries the batch identifier of the infrared
\* blob selected last.
C3_BatchIdOfInfrared ==
    (rt /\ ~no_ir /\ Len(req.pats) = 4) =>
        req.pats[4] = DigitsPat(BlobBasename(irblob).s)

\* C4 as stated: the requests re-issued in the visible and 6.2 micron wait
\* loops do not carry the batch identifier.
C4_UncorrelatedWait ==
    (pc \in {"vis_wait", "irdiff_wait"} /\ polls > 0) =>
        \A k \in 1 .. Len(req.pats) : req.pats[k].kind # "digits"

\* C4 as amended: every request re-issued in the visible and 6.2 micron wait
\* loops is identical to the correlated query that came back empty, the batch
\* identifier being its fourth pattern.
CorrelatedWaitStep ==
    pc \in {"vis_wait", "irdiff_wait"} =>
        /\ req' = req
        /\ Len(req'.pats) = 4
        /\ req'.pats[4] = DigitsPat(fb)

C4_CorrelatedWait == [][CorrelatedWaitStep]_vars

\* the visible wait loop has re-issued its query
C4_Witness == pc = "vis_wait" /\ polls > 0 /\ rt /\ ~no_ir

\* the blobs of files listed under the hour h, and the others
FromHour(h)  == SelectSeq(files, LAMBDA b : b.pre.hr = h)
NotFromHour(h) == SelectSeq(files, LAMBDA b : b.pre.hr # h)

ImageSelection ==
    pc \in {"ir_xfer", "vis_xfer", "irdiff_xfer"} =>
        /\ Len(listed) > 0
        /\ rt => files = <<listed[Len(listed)]>>
        /\ ~rt => files = listed
        /\ \A k \in 1 .. Len(files) : CatOfBlob(files[k]) = CatOf(pc)
        /\ i \in 1 .. Len(files) + 1
        /\ del_local = FALSE => Downloads = SubSeq(files, 1, i - 1)
        /\ gcs_bucket # "None" => Copies = SubSeq(files, 1, i - 1)

\* the blobs the client was asked to download or to copy, in the order asked,
\* each once
Transferred ==
    LET F[k \in 0 .. Len(log)] ==
            IF k = 0 THEN <<>>
            ELSE IF (IsDownload(log[k]) \/ IsCopy(log[k]))
                    /\ \A j \in 1 .. Len(F[k - 1]) : F[k - 1][j] # log[k].blob
                 THEN Append(F[k - 1], log[k].blob)
                 ELSE F[k - 1]
    IN F[Len(log)]

\* C6: in the loop of an image category the blobs kept are the last blob of
\* the listing (real time) or the whole listing in its order (historical), and
\* the blobs the loop has gone through have been transferred, in that order.
C6_ImageSelection ==
    pc \in {"ir_xfer", "vis_xfer", "irdiff_xfer"} =>
        /\ rt => files = <<listed[Len(listed)]>>
        /\ ~rt => files = listed
        /\ Transferred = SubSeq(files, 1, i - 1)

\* C7: a download that returned the failure value does not end the run in an
\* exception.
C7_FailureNeverAborts == outfile = Failed => pc \notin Raised

C9_LocalCopyWithoutMirror ==
    (gcs_bucket = "None" /\ pc \in XferPcs /\ i > 1) =>
        \E k \in 1 .. Len(log) :
            /\ IsDownload(log[k])
            /\ log[k].blob = files[i - 1]
            /\ log[k].dir = [day |-> Day(Cursor), cat |-> CatOf(pc)]

\* C10: while the infrared wait loop runs, the last infrared listing was
\* empty and nothing was created, downloaded or copied since; every step
\* re-issues the identical request, and either the answer is empty and the
\* run stays in the loop with nothing else changed, or it is not and the run
\* goes on to the infrared downloads.
InfraredWaitStep ==
    pc = "ir_wait" =>
        /\ rt /\ ~no_ir /\ Len(listed) = 0 /\ log = <<>>
        /\ req' = req
        /\ req'.pats = <<ChanPat("C13"), StartPat(date), SectorPat(sector0)>>
        /\ IF Len(listed') = 0
           THEN /\ pc' = "ir_wait" /\ log' = log
                /\ UNCHANGED <<outfile, outdir, outroot0, date, iters, fb, irblob>>
           ELSE /\ pc' = "ir_xfer"
                /\ log' = <<Entry("mkdir", NoBlob, OutDir(date, "ir"), NoKey)>>

C10_InfraredWait == [][InfraredWaitStep]_vars

\* the infrared wait loop has re-issued its query
C10_Witness == pc = "ir_wait" /\ polls > 0

WaitPcs == {"ir_wait", "vis_wait", "irdiff_wait"}

\* a step of a historical run: no wait loop is entered and no query is
\* re-issued; after an empty listing nothing is downloaded or copied and the
\* run is at the next category
HistoricalStep ==
    (~rt /\ pc # "start") =>
        /\ pc' \notin WaitPcs
        /\ polls' = 0
        /\ (pc = "ir" /\ ~no_ir /\ Len(listed') = 0) =>
               (pc' = "vis" /\ log' = <<>> /\ req' = ImgRequest("C13"))
        /\ (pc = "vis" /\ ~no_vis /\ Len(listed') = 0) =>
               (pc' = "irdiff" /\ log' = <<>> /\ req' = ImgRequest("C02"))
        /\ (pc = "irdiff" /\ ~no_irdiff /\ Len(listed') = 0) =>
               (pc' = "glm" /\ log' = <<>> /\ req' = ImgRequest("C08"))
        /\ (pc = "glm" /\ ~no_glm /\ Len(listed') = 0) =>
               (pc' = "glm_back" /\ log' = <<>>)
        /\ (pc = "glm_back" /\ BackfillDue(date) /\ Len(listed0') = 0) =>
               (pc' = "glm_fwd" /\ log' = log)
        /\ (pc = "glm_fwd" /\ ForwardDue(date) /\ Len(files') = 0) =>
               (pc' = "manifest" /\ log' = log)

\* the run has ended: it has returned, or exit() or an exception has ended it
Over == pc \in {"done", "exit"} \cup Raised

\* the position of a historical run within the body of the hourly loop
PcOrd(p) ==
    CASE p = "loop"          -> 0
      [] p = "ir"            -> 1
      [] p = "ir_xfer"       -> 2
      [] p = "vis"           -> 3
      [] p = "vis_xfer"      -> 4
      [] p = "irdiff"        -> 5
      [] p = "irdiff_xfer"   -> 6
      [] p = "glm"           -> 7
      [] p = "glm_xfer"      -> 8
      [] p = "glm_back"      -> 9
      [] p = "glm_back_xfer" -> 10
      [] p = "glm_fwd"       -> 11
      [] p = "glm_fwd_xfer"  -> 12
      [] p = "manifest"      -> 13
      [] OTHER               -> 14

\* a step moves the run forward: to a later hour, to a later place of the
\* body, or to the next blob of the for loop it is in
Advances ==
    \/ date' > date
    \/ date' = date /\ PcOrd(pc') > PcOrd(pc)
    \/ date' = date /\ pc' = pc /\ pc \in XferPcs /\ i' = i + 1

\* how far a historical run can be: the cursor is at most one hour past the
\* end, a for loop at most one past its last blob; and a run that is not over
\* has a step to take
HistoricalProgress ==
    (~rt /\ pc # "start" /\ ~Over) =>
        /\ date = date1 \/ date <= date2 + StepMinutes
        /\ pc \in XferPcs => i \in 1 .. Len(files) + 1
        /\ PcOrd(pc) <= 13
        /\ ENABLED Next

HistoricalAdvance == (~rt /\ pc # "start") => Advances

\* C11: in a historical run an empty listing is never retried: the query is
\* issued once, nothing of it is transferred and the run goes on with the next
\* category; every step of the run moves it forward through the finitely
\* many hours, places of the body and blobs of a loop, and a run that is not
\* over always has a step to take, so that every historical run ends.
C11_HistoricalNoRetry ==
    /\ [][HistoricalStep /\ HistoricalAdvance]_vars
    /\ []HistoricalProgress

\* a historical run is past an empty infrared listing
C11_Witness ==
    /\ ~rt /\ pc = "vis" /\ ~no_ir /\ Len(listed) = 0 /\ log = <<>>
    /\ req = ImgRequest("C13") /\ polls = 0

IsTask(e) == e.op = "task"
\* the blobs the pool tasks were started for, in the order of their start
Tasks == BlobsOf(SelectSeq(log, IsTask))
\* the lightning blobs among the copies
GlmCopies == SelectSeq(Copies, LAMBDA b : CatOfBlob(b) = "glm")

\* C12: in a real-time run no lightning blob is downloaded by the sequential
\* path; at most 5 pool tasks run at a time; the tasks started are the rows of
\* files in order, one per blob; while a task runs the run is at the pool, no
\* lightning blob has been copied, and once the run is past the pool there is
\* exactly one task per selected blob and none is running.
C12_PoolDownloads ==
    (rt /\ pc # "start") =>
        /\ \A k \in 1 .. Len(log) :
               IsDownload(log[k]) => CatOfBlob(log[k].blob) # "glm"
        /\ running \in 0 .. 5
        /\ running > 0 => pc = "glm_pool"
        /\ pc = "glm_pool" =>
               /\ del_local = FALSE
               /\ running <= started
               /\ Tasks = SubSeq(files, 1, started)
               /\ GlmCopies = <<>>
        /\ (pc \in {"glm_rt_copy", "glm_fwd", "manifest"} /\ ~no_glm) =>
               /\ running = 0
               /\ del_local = FALSE => Tasks = files
               /\ del_local = TRUE => Tasks = <<>>
               /\ Len(GlmCopies) <= Len(files)

\* five tasks of the pool run and blobs wait for a worker
C12_Witness ==
    rt /\ pc = "glm_pool" /\ running = 5 /\ started < Len(files)

\* the last k entries of a listing (all of it when it has fewer)
LastOf(L, k) == SubSeq(L, (IF Len(L) > k THEN Len(L) - k ELSE 0) + 1, Len(L))

\* C13: when the minute m of the cursor is below 3 and the previous hour's
\* lightning listing is not empty, a real-time run keeps its last 8 - 3*m
\* entries, never more than 8, and appends them to the selection of the hour
\* of the cursor; a historical run keeps its last 8 entries.
C13_TrailingBackfillSlice ==
    (~no_glm /\ Minute(date) < 3 /\ Len(listed0) > 0) =>
        /\ (rt /\ pc = "glm_rt") =>
               /\ files0 = LastOf(listed0, 8 - 3 * Minute(date))
               /\ Len(files0) <= 8
               /\ files = FromHour(Hour(date)) \o files0
        /\ (~rt /\ pc = "glm_back_xfer") => files = LastOf(listed0, 8)

\* the lightning blobs handed to a pool task or copied to the mirror bucket
GlmTransferred ==
    {Tasks[k] : k \in 1 .. Len(Tasks)} \cup {GlmCopies[k] : k \in 1 .. Len(GlmCopies)}

\* C14: in a real-time run on conus or full the minute of the adjusted start
\* is never below 3: the previous hour's lightning listing is never asked
\* for, nothing of it is kept, and the lightning blobs transferred are at most
\* 15 (conus) or 30 (full).
C14_NoBackfillConusFull ==
    (rt /\ sector0 \in {"C", "F"} /\ pc # "start") =>
        LET K == IF sector0 = "C" THEN 15 ELSE 30
        IN /\ Minute(date1) >= 3
           /\ Minute(date) >= 3
           /\ listed0 = <<>> /\ files0 = <<>>
           /\ (req.pre.prod = "GLM-L2-LCFA" /\ visited # <<>>) =>
                  req.pre.hr = Hour(Cursor)
           /\ pc \in {"glm_back", "glm_rt", "glm_pool", "glm_rt_copy"} =>
                  Len(files) <= K
           /\ Cardinality(GlmTransferred) <= K
           /\ \A k \in 1 .. Len(log) :
                  IsDownload(log[k]) => CatOfBlob(log[k].blob) # "glm"

\* a conus run started at minute 2 of the hour: its cursor is at minute 57
\* of the hour before, and 15 lightning blobs went to the pool
C14_Witness ==
    /\ rt /\ sector0 = "C" /\ pc = "manifest"
    /\ Minute(date) = 57 /\ Len(Tasks) = 15

\* the batch identifier is about to be extracted: the run is at the visible
\* or the 6.2 micron step of a real-time turn with infrared enabled
ExtractsBatchId ==
    /\ rt /\ ~no_ir
    /\ \/ pc = "vis" /\ ~no_vis
       \/ pc = "irdiff" /\ ~no_irdiff

\* C15: whenever the batch identifier is extracted, files is not empty and
\* holds the one blob the step before selected; no run with a sector given
\* ends in an IndexError.
C15_BatchIdSourceNonEmpty ==
    /\ ExtractsBatchId =>
           /\ Len(files) = 1
           /\ CatOfBlob(files[1]) \in {"ir", "vis"}
    /\ (pc = "IndexError") => sector = ""

\* the 6.2 micron step reads the infrared blob: visible is disabled, and the
\* infrared wait loop has run
C15_Witness ==
    /\ ExtractsBatchId /\ pc = "irdiff" /\ no_vis
    /\ Len(files) = 1 /\ files[1] = irblob

====
